---- MODULE Spec2Model ----
(***************************************************************************)
(* Business directory scraper (src/T.py): main iterates REGIONS, each      *)
(* region iterates CATEGORIES, each category asks YellowPages and then     *)
(* Yelp, deduplicates, keeps ten rows, and the region appends a shortfall  *)
(* row for a category with fewer than ten; the region's rows are then      *)
(* written to a spreadsheet.                                               *)
(*                                                                         *)
(* Text is a sequence of ASCII codes, so that lower(), strip() and the     *)
(* whitespace collapse of clean_text are computed, not assumed.  Python's  *)
(* None and "" are both the empty sequence: the source only ever tests     *)
(* them by truthiness (`if not html`, `if not email`, `phone or ""`).      *)
(* A page text searched for an email is a sequence of whitespace-separated *)
(* tokens.                                                                 *)
(***************************************************************************)
EXTENDS Integers, Sequences, FiniteSets, TLC

VARIABLES
    pc,              \* position: "main", "category", "afterYP", "return", "save", "done"
    regionIdx,       \* index into RegionKeys of the region main is at
    attempted,       \* region keys whose try-block has been entered (main, line 513)
    log,             \* what main and save_to_excel have logged, in order
    files,           \* region keys whose <key>_businesses.xlsx has been written
    catIdx,          \* index into CATEGORIES of the category scrape_region is at
    all_results,     \* scrape_region's all_results
    all_businesses,  \* scrape_category_for_region's all_businesses
    queried,         \* the provider calls scrape_category_for_region has made, in order
    businesses       \* what scrape_category_for_region returned to scrape_region

vars == <<pc, regionIdx, attempted, log, files, catIdx, all_results,
          all_businesses, queried, businesses>>

-----------------------------------------------------------------------------
(* Limits written in the source *)

Quota == 10

ListingCap == 15

(* Bound of the model: the number of freely chosen listings that follow the
   regular listings of a search page *)
MaxTail == 1

-----------------------------------------------------------------------------
(* Text helpers *)

None == <<>>

IsSpace(c) == c \in {9, 10, 13, 32}

IsUpper(c) == c >= 65 /\ c <= 90

IsLetter(c) == (c >= 65 /\ c <= 90) \/ (c >= 97 /\ c <= 122)

IsDigit(c) == c >= 48 /\ c <= 57

LowerChar(c) == IF IsUpper(c) THEN c + 32 ELSE c

lower(s) == [i \in 1..Len(s) |-> LowerChar(s[i])]

RECURSIVE LStrip(_)
LStrip(s) == IF s = <<>> THEN s
             ELSE IF IsSpace(Head(s)) THEN LStrip(Tail(s)) ELSE s

RECURSIVE RStrip(_)
RStrip(s) == IF s = <<>> THEN s
             ELSE IF IsSpace(s[Len(s)]) THEN RStrip(SubSeq(s, 1, Len(s) - 1)) ELSE s

strip(s) == RStrip(LStrip(s))

RECURSIVE CollapseSpace(_)
CollapseSpace(s) ==
    IF s = <<>> THEN <<>>
    ELSE IF IsSpace(Head(s)) THEN <<32>> \o CollapseSpace(LStrip(s))
    ELSE <<Head(s)>> \o CollapseSpace(Tail(s))

clean_text(text) == IF text = None THEN <<>> ELSE CollapseSpace(strip(text))

(* [A-Za-z0-9._%+-] and [A-Za-z0-9.-] of the email pattern *)
IsLocalChar(c) == IsLetter(c) \/ IsDigit(c) \/ c \in {46, 95, 37, 43, 45}

IsDomainChar(c) == IsLetter(c) \/ IsDigit(c) \/ c \in {46, 45}

(* Where the email pattern can match in a token: local part tok[s..p-1], '@'
   at p, domain up to a dot at q, then at least two letters up to e. *)
LocalStarts(tok, p) ==
    { s \in 1..(p - 1) : \A i \in s..(p - 1) : IsLocalChar(tok[i]) }

DomainDots(tok, p) ==
    { q \in (p + 2)..(Len(tok) - 2) :
        tok[q] = 46 /\ \A i \in (p + 1)..(q - 1) : IsDomainChar(tok[i]) }

LetterEnds(tok, q) ==
    { e \in (q + 2)..Len(tok) : \A i \in (q + 1)..e : IsLetter(tok[i]) }

EmailSpans(tok) ==
    UNION { UNION { { <<s, e>> : s \in LocalStarts(tok, p), e \in LetterEnds(tok, q) }
                    : q \in DomainDots(tok, p) }
            : p \in { i \in 1..Len(tok) : tok[i] = 64 } }

(* re.findall gives the leftmost match, taken greedily *)
MatchEmail(tok) ==
    LET spans == EmailSpans(tok) IN
    IF spans = {} THEN None
    ELSE LET s == CHOOSE s \in {sp[1] : sp \in spans} :
                     \A sp \in spans : s <= sp[1]
             e == CHOOSE e \in {sp[2] : sp \in {x \in spans : x[1] = s}} :
                     \A sp \in {x \in spans : x[1] = s} : e >= sp[2]
         IN SubSeq(tok, s, e)

RECURSIVE FirstEmail(_)
FirstEmail(tokens) ==
    IF tokens = <<>> THEN None
    ELSE LET m == MatchEmail(Head(tokens)) IN
         IF m # None THEN m ELSE FirstEmail(Tail(tokens))

extract_email_from_text(text) == IF text = None THEN None ELSE FirstEmail(text)

(* fetch_page without raise_for_status *)
fetch_page_ignores_status(response) == response.text

(* fetch_page: the text of a successful response, None for a timeout, a
   transport error or a non-success status (requests.RequestException) *)
fetch_page(response) == IF response.kind = "ok" THEN response.text ELSE None

-----------------------------------------------------------------------------
(* Configuration *)

(* The first two of the sixteen labels of CATEGORIES *)
CATEGORIES == << "Clothing & Apparel", "Electronics & Gadgets" >>

(* REGIONS, in the order main iterates it *)
RegionKeys == << "kansas", "nunavut" >>

REGIONS ==
    [ kansas  |-> [ name |-> "Kansas", country |-> "United States",
                    sources |-> << "https://www.yellowpages.com",
                                   "https://www.yelp.com",
                                   "https://www.manta.com" >> ],
      nunavut |-> [ name |-> "Nunavut", country |-> "Canada",
                    sources |-> << "https://www.yellowpages.ca",
                                   "https://www.yelp.ca",
                                   "https://www.canada411.ca" >> ] ]

(* The label of a category as text *)
CategoryText(category) ==
    CASE category = "Clothing & Apparel" ->
           << 67, 108, 111, 116, 104, 105, 110, 103, 32, 38, 32,
              65, 112, 112, 97, 114, 101, 108 >>
      [] category = "Electronics & Gadgets" ->
           << 69, 108, 101, 99, 116, 114, 111, 110, 105, 99, 115, 32, 38, 32,
              71, 97, 100, 103, 101, 116, 115 >>

-----------------------------------------------------------------------------
(* Rows *)

Row(name, email, phone, website, address, category) ==
    [ name |-> name, email |-> email, phone |-> phone, website |-> website,
      address |-> address, category |-> category ]

(* "Less than 10 records available for " *)
ShortfallText ==
    << 76, 101, 115, 115, 32, 116, 104, 97, 110, 32, 49, 48, 32, 114, 101, 99,
       111, 114, 100, 115, 32, 97, 118, 97, 105, 108, 97, 98, 108, 101, 32,
       102, 111, 114, 32 >>

ShortfallRow(category) ==
    Row(ShortfallText \o CategoryText(category), <<>>, <<>>, <<>>, <<>>, category)

Min(a, b) == IF a <= b THEN a ELSE b

-----------------------------------------------------------------------------
(* Extraction.  A listing of a search page is a record of what the selectors
   find in it: name_elem (is there a name element), name (its text), phone,
   website (href), address, site (the response of the listing's website),
   text (the listing's own text, as tokens), raises (parsing it raises).
   A Yelp listing has name_elem, name, href, page (the response of the
   business page), phone, website and address (found on that page), raises.
   The result of a listing is whether a row is appended, the row, and the
   places searched for an email, in order. *)

Skip(lookups) == [ emit |-> FALSE, row |-> <<>>, lookups |-> lookups ]

Emit(row, lookups) == [ emit |-> TRUE, row |-> row, lookups |-> lookups ]

(* the listing loop without `if not email: continue` *)
YellowPagesListing_keeps_no_email(listing, category) ==
    IF listing.raises THEN Skip(<<>>)
    ELSE IF ~listing.name_elem THEN Skip(<<>>)
    ELSE LET business_name == clean_text(listing.name)
             website_html == IF listing.website # None
                             THEN fetch_page(listing.site) ELSE None
             site_email == extract_email_from_text(website_html)
             email == IF site_email # None THEN site_email
                      ELSE extract_email_from_text(listing.text)
         IN IF business_name = <<>> THEN Skip(<<>>)
            ELSE Emit(Row(business_name, email, clean_text(listing.phone),
                          listing.website, clean_text(listing.address), category),
                      <<>>)

YellowPagesListing(listing, category) ==
    IF listing.raises THEN Skip(<<>>)
    ELSE IF ~listing.name_elem THEN Skip(<<>>)
    ELSE LET business_name == clean_text(listing.name)
             website_html == IF listing.website # None
                             THEN fetch_page(listing.site) ELSE None
             site_email == extract_email_from_text(website_html)
             email == IF site_email # None THEN site_email
                      ELSE extract_email_from_text(listing.text)
             lookups == (IF listing.website # None THEN <<"website">> ELSE <<>>)
                        \o (IF site_email = None THEN <<"listing">> ELSE <<>>)
         IN IF business_name = <<>> THEN Skip(<<>>)
            ELSE IF email = None THEN Skip(lookups)
            ELSE Emit(Row(business_name, email, clean_text(listing.phone),
                          listing.website, clean_text(listing.address), category),
                      lookups)

scrape_yellowpages_us_listing(listing, category) ==
    YellowPagesListing(listing, category)

scrape_yellowpages_ca_listing(listing, category) ==
    YellowPagesListing(listing, category)

scrape_yelp_listing(listing, category) ==
    IF listing.raises THEN Skip(<<>>)
    ELSE IF ~listing.name_elem THEN Skip(<<>>)
    ELSE LET business_name == clean_text(listing.name)
             business_html == fetch_page(listing.page)
             email == extract_email_from_text(business_html)
         IN IF business_name = <<>> THEN Skip(<<>>)
            ELSE IF listing.href = None THEN Skip(<<>>)
            ELSE IF business_html = None THEN Skip(<<"page">>)
            ELSE IF email = None THEN Skip(<<"page">>)
            ELSE Emit(Row(business_name, email, clean_text(listing.phone),
                          listing.website, clean_text(listing.address), category),
                      <<"page">>)

(* for listing in listings[:15]: of the results of the listings, in order,
   those the loop reaches; it breaks once Quota rows have been appended *)
RECURSIVE ListingLoop(_, _)
ListingLoop(results, appended) ==
    IF results = <<>> THEN <<>>
    ELSE LET r == Head(results) IN
         IF r.emit /\ appended + 1 >= Quota THEN << r >>
         ELSE << r >> \o ListingLoop(Tail(results),
                                     IF r.emit THEN appended + 1 ELSE appended)

(* listings[:15] *)
FirstListings(listings) == SubSeq(listings, 1, Min(ListingCap, Len(listings)))

(* The rows appended to businesses *)
RECURSIVE Appended(_)
Appended(results) ==
    IF results = <<>> THEN <<>>
    ELSE IF Head(results).emit THEN << Head(results).row >> \o Appended(Tail(results))
    ELSE Appended(Tail(results))

(* A search is the response of the search page, whose text is the page's
   listings, and whether parsing the page raises.  Without a page, or when
   the page does not parse, the loop has no listing to go through. *)
Listings(search) ==
    LET html == fetch_page(search.response) IN
    IF html = None THEN <<>>
    ELSE IF search.soup_raises THEN <<>>
    ELSE FirstListings(html)

scrape_yellowpages_us_results(search, category) ==
    LET listings == Listings(search) IN
    ListingLoop([ i \in DOMAIN listings |->
                    scrape_yellowpages_us_listing(listings[i], category) ], 0)

scrape_yellowpages_ca_results(search, category) ==
    LET listings == Listings(search) IN
    ListingLoop([ i \in DOMAIN listings |->
                    scrape_yellowpages_ca_listing(listings[i], category) ], 0)

scrape_yelp_results(search, category) ==
    LET listings == Listings(search) IN
    ListingLoop([ i \in DOMAIN listings |->
                    scrape_yelp_listing(listings[i], category) ], 0)

scrape_yellowpages_us(search, category) ==
    Appended(scrape_yellowpages_us_results(search, category))

scrape_yellowpages_ca(search, category) ==
    Appended(scrape_yellowpages_ca_results(search, category))

scrape_yelp(search, category) ==
    Appended(scrape_yelp_results(search, category))

(* Did the provider call fail as a whole (no page, or the page did not parse) *)
SearchFailed(search) == search.response.kind # "ok" \/ search.soup_raises

(* Was a listing dropped at `if not email: continue` *)
NoEmail(results) ==
    \E i \in DOMAIN results : ~results[i].emit /\ results[i].lookups # <<>>

(* Where the call searched for an email, in order, for each listing it
   searched at all *)
Lookups(results) ==
    { results[i].lookups : i \in { j \in DOMAIN results : results[j].lookups # <<>> } }

-----------------------------------------------------------------------------
(* scrape_category_for_region, after the providers *)

(* identifier without .lower() *)
identifier_exact(business) == << business.name, business.email >>

identifier(business) == << lower(business.name), lower(business.email) >>

RECURSIVE Unique(_, _)
Unique(rows, seen) ==
    IF rows = <<>> THEN <<>>
    ELSE IF identifier(Head(rows)) \in seen
         THEN Unique(Tail(rows), seen)
         ELSE << Head(rows) >>
              \o Unique(Tail(rows), seen \cup { identifier(Head(rows)) })

(* unique_businesses without [:10] *)
unique_businesses_unlimited(rows) == Unique(rows, {})

unique_businesses(rows) ==
    LET u == Unique(rows, {}) IN SubSeq(u, 1, Min(Quota, Len(u)))

(* the test of line 414 with <= for < *)
NeedsYelp_inclusive(rows) == Len(rows) <= Quota

(* If we don't have enough, try Yelp *)
NeedsYelp(rows) == Len(rows) < Quota

(* scrape_region: the block of one category *)
CategoryBlock(rows, category) ==
    IF Len(rows) < Quota
    THEN Append(rows, ShortfallRow(category))
    ELSE rows

(* items put in front of the list *)
extend_front(list, items) == items \o list

(* list.extend *)
extend(list, items) == list \o items

-----------------------------------------------------------------------------
(* What the network and the pages can hold: the inputs of the model *)

Resp(text) == [ kind |-> "ok", text |-> text ]

(* A failed request; a non-success status still comes with a body *)
Fail(kind, body) == [ kind |-> kind, text |-> body ]

(* Business i is named "n<i>" and mails from "<i>@x.co"; upper gives the
   same business written in capitals *)
BizName(i, upper) == IF upper THEN << 78, 65 + i >> ELSE << 110, 97 + i >>

BizEmail(i, upper) ==
    IF upper THEN << 65 + i, 64, 88, 46, 67, 79 >>
    ELSE << 97 + i, 64, 120, 46, 99, 111 >>

Word == << 104, 105 >>

MailTo(email) == << 109, 97, 105, 108, 116, 111, 58 >> \o email

YPRegular(i) ==
    [ raises |-> FALSE, name_elem |-> TRUE, name |-> BizName(i, FALSE),
      phone |-> << 49 >>, website |-> << 119, 97 + i >>, address |-> <<>>,
      site |-> Resp(<< Word, BizEmail(i, FALSE) >>),
      text |-> << BizName(i, FALSE) >> ]

(* no website and no address in the listing's text *)
YPNoEmail ==
    [ YPRegular(12) EXCEPT !.website = None, !.site = Fail("transport", <<>>),
                           !.text = << Word >> ]

YPTailListings ==
    { YPRegular(11),
      [ YPRegular(0) EXCEPT !.name = BizName(0, TRUE), !.phone = << 57 >>,
                            !.site = Resp(<< BizEmail(0, TRUE) >>) ],
      [ YPRegular(12) EXCEPT !.name_elem = FALSE ],
      [ YPRegular(12) EXCEPT !.name = << 32, 10 >> ],
      YPNoEmail,
      [ YPRegular(11) EXCEPT !.site = Fail("timeout", <<>>),
                             !.text = << BizName(11, FALSE),
                                         MailTo(BizEmail(11, FALSE)) >> ],
      [ YPRegular(12) EXCEPT !.site = Fail("status", << BizEmail(12, FALSE) >>) ],
      [ YPRegular(12) EXCEPT !.raises = TRUE ],
      [ YPRegular(11) EXCEPT !.name = << 32, 110, 108, 10 >> ] }

YelpRegular(i) ==
    [ raises |-> FALSE, name_elem |-> TRUE, name |-> BizName(i, FALSE),
      href |-> << 47, 97 + i >>, page |-> Resp(<< Word, BizEmail(i, FALSE) >>),
      phone |-> << 50 >>, website |-> <<>>, address |-> << 65 >> ]

YelpTailListings ==
    { YelpRegular(12),
      [ YelpRegular(0) EXCEPT !.name = BizName(0, TRUE),
                              !.page = Resp(<< BizEmail(0, TRUE) >>) ],
      [ YelpRegular(14) EXCEPT !.name_elem = FALSE ],
      [ YelpRegular(14) EXCEPT !.name = << 32 >> ],
      [ YelpRegular(14) EXCEPT !.href = None ],
      [ YelpRegular(14) EXCEPT !.page = Fail("status", << BizEmail(14, FALSE) >>) ],
      [ YelpRegular(14) EXCEPT !.page = Resp(<< Word >>) ],
      [ YelpRegular(14) EXCEPT !.raises = TRUE ] }

Tails(listings) == UNION { [ 1..n -> listings ] : n \in 0..MaxTail }

YPBulkSizes == { 0, 3, 9, 10 }

YPPadSizes == { 0, 6 }

YelpBulkSizes == { 0, 2, 10 }

(* A YellowPages page: listings without an email, then the businesses
   0..k-1, then any MaxTail listings *)
YPPages ==
    { [ i \in 1..m |-> YPNoEmail ] \o [ i \in 1..k |-> YPRegular(i - 1) ] \o t :
        m \in YPPadSizes, k \in YPBulkSizes, t \in Tails(YPTailListings) }

(* A Yelp page: the businesses 13..13+k-1, then any MaxTail listings *)
YelpPages ==
    { [ i \in 1..k |-> YelpRegular(12 + i) ] \o t :
        k \in YelpBulkSizes, t \in Tails(YelpTailListings) }

(* The searches: a page, a failed request (an error status comes with a
   page of its own), or a page that does not parse *)
Searches(pages, listing) ==
    { [ response |-> Resp(p), soup_raises |-> FALSE ] : p \in pages }
    \cup { [ response |-> Fail("timeout", <<>>), soup_raises |-> FALSE ],
           [ response |-> Fail("transport", <<>>), soup_raises |-> FALSE ],
           [ response |-> Fail("status", << listing >>), soup_raises |-> FALSE ],
           [ response |-> Resp(<< listing >>), soup_raises |-> TRUE ] }

(* What a provider call can return for a category: its rows, whether the
   call failed as a whole, whether it dropped a listing for want of an
   email, and where it searched its listings for an email.  Each set is the image of the searches above under the provider's
   function. *)
Outcome(rows, search, results) ==
    [ businesses |-> rows, failed |-> SearchFailed(search),
      no_email |-> NoEmail(results), lookups |-> Lookups(results) ]

CategorySet == { CATEGORIES[i] : i \in DOMAIN CATEGORIES }

YellowPagesUSOutcomes ==
    [ c \in CategorySet |->
        { Outcome(scrape_yellowpages_us(search, c), search,
                  scrape_yellowpages_us_results(search, c)) :
            search \in Searches(YPPages, YPRegular(11)) } ]

YellowPagesCAOutcomes ==
    [ c \in CategorySet |->
        { Outcome(scrape_yellowpages_ca(search, c), search,
                  scrape_yellowpages_ca_results(search, c)) :
            search \in Searches(YPPages, YPRegular(11)) } ]

YelpOutcomes ==
    [ c \in CategorySet |->
        { Outcome(scrape_yelp(search, c), search, scrape_yelp_results(search, c)) :
            search \in Searches(YelpPages, YelpRegular(12)) } ]

-----------------------------------------------------------------------------
(* The program *)

region_key == RegionKeys[regionIdx]

is_canada == REGIONS[region_key].country = "Canada"

category == CATEGORIES[catIdx]

Logged(event) == Append(log, [ event |-> event, region |-> region_key ])

Queried(provider, outcome) ==
    [ provider |-> provider, failed |-> outcome.failed,
      count |-> Len(outcome.businesses), no_email |-> outcome.no_email,
      lookups |-> outcome.lookups ]

Init ==
    /\ pc = "main"
    /\ regionIdx = 1
    /\ attempted = {}
    /\ log = <<>>
    /\ files = {}
    /\ catIdx = 1
    /\ all_results = <<>>
    /\ all_businesses = <<>>
    /\ queried = <<>>
    /\ businesses = <<>>

(* main: the next region's try-block is entered and scrape_region starts *)
EnterRegion ==
    /\ pc = "main"
    /\ regionIdx <= Len(RegionKeys)
    /\ attempted' = attempted \cup { region_key }
    /\ log' = Logged("processing")
    /\ pc' = "category"
    /\ UNCHANGED << regionIdx, files, catIdx, all_results, all_businesses,
                    queried, businesses >>

(* scrape_category_for_region: Try YellowPages first *)
YellowPagesStep(provider, outcome) ==
    /\ all_businesses' = extend(<<>>, outcome.businesses)
    /\ queried' = << Queried(provider, outcome) >>
    /\ pc' = "afterYP"
    /\ UNCHANGED << regionIdx, attempted, log, files, catIdx, all_results,
                    businesses >>

ScrapeYellowPagesUS ==
    /\ pc = "category"
    /\ ~is_canada
    /\ \E outcome \in YellowPagesUSOutcomes[category] :
          YellowPagesStep("https://www.yellowpages.com", outcome)

ScrapeYellowPagesCA ==
    /\ pc = "category"
    /\ is_canada
    /\ \E outcome \in YellowPagesCAOutcomes[category] :
          YellowPagesStep("https://www.yellowpages.ca", outcome)

(* scrape_category_for_region: remove duplicates, limit to ten, return *)
Return(rows) ==
    /\ businesses' = unique_businesses(rows)
    /\ pc' = "return"
    /\ UNCHANGED << regionIdx, attempted, log, files, catIdx, all_results >>

(* scrape_category_for_region: If we don't have enough, try Yelp *)
ScrapeYelp ==
    /\ pc = "afterYP"
    /\ NeedsYelp(all_businesses)
    /\ \E outcome \in YelpOutcomes[category] :
          /\ all_businesses' = extend(all_businesses, outcome.businesses)
          /\ queried' = Append(queried,
                               Queried(IF is_canada THEN "https://www.yelp.ca"
                                       ELSE "https://www.yelp.com", outcome))
          /\ Return(all_businesses')

SkipYelp ==
    /\ pc = "afterYP"
    /\ ~NeedsYelp(all_businesses)
    /\ UNCHANGED << all_businesses, queried >>
    /\ Return(all_businesses)

(* scrape_region: the shortfall row, all_results.extend, the next category *)
AppendCategory ==
    /\ pc = "return"
    /\ all_results' = extend(all_results, CategoryBlock(businesses, category))
    /\ catIdx' = catIdx + 1
    /\ pc' = IF catIdx = Len(CATEGORIES) THEN "save" ELSE "category"
    /\ all_businesses' = <<>>
    /\ queried' = <<>>
    /\ businesses' = <<>>
    /\ UNCHANGED << regionIdx, attempted, log, files >>

(* main leaves a region for the next one *)
NextRegion ==
    /\ regionIdx' = regionIdx + 1
    /\ pc' = "main"
    /\ catIdx' = 1
    /\ all_results' = <<>>
    /\ all_businesses' = <<>>
    /\ queried' = <<>>
    /\ businesses' = <<>>
    /\ UNCHANGED attempted

(* main without its try/except: the exception ends the program *)
RegionRaisesUncaught ==
    /\ pc \in { "category", "afterYP", "return" }
    /\ pc' = "done"
    /\ UNCHANGED << regionIdx, attempted, log, files, catIdx, all_results,
                    all_businesses, queried, businesses >>

(* An exception escapes scrape_region: main's except logs it and continues *)
RegionRaises ==
    /\ pc \in { "category", "afterYP", "return" }
    /\ log' = Logged("error_processing_region")
    /\ NextRegion
    /\ UNCHANGED files

(* save_to_excel raising again after it has logged the error *)
save_to_excel_reraises(data, write_ok) ==
    IF data = <<>>
    THEN [ log |-> Logged("no_data_to_save"), files |-> files, raised |-> FALSE ]
    ELSE IF write_ok
    THEN [ log |-> Logged("saved"), files |-> files \cup { region_key },
           raised |-> FALSE ]
    ELSE [ log |-> Logged("error_saving"), files |-> files, raised |-> TRUE ]

(* save_to_excel(data, filename): what it logs, the files there are after it,
   and whether an exception leaves it.  write_ok is whether pandas/openpyxl
   manage to write the file. *)
save_to_excel(data, write_ok) ==
    IF data = <<>>
    THEN [ log |-> Logged("no_data_to_save"), files |-> files, raised |-> FALSE ]
    ELSE IF write_ok
    THEN [ log |-> Logged("saved"), files |-> files \cup { region_key },
           raised |-> FALSE ]
    ELSE [ log |-> Logged("error_saving"), files |-> files, raised |-> FALSE ]

(* main: save the region's rows, log the completion, go to the next region *)
SaveRegion ==
    /\ pc = "save"
    /\ \E write_ok \in BOOLEAN :
          LET saved == save_to_excel(all_results, write_ok) IN
          /\ files' = saved.files
          /\ log' = Append(saved.log,
                           [ event |-> IF saved.raised THEN "error_processing_region"
                                       ELSE "completed",
                             region |-> region_key ])
    /\ NextRegion

(* main: after the last region *)
Finish ==
    /\ pc = "main"
    /\ regionIdx > Len(RegionKeys)
    /\ pc' = "done"
    /\ UNCHANGED << regionIdx, attempted, log, files, catIdx, all_results,
                    all_businesses, queried, businesses >>

Next ==
    \/ EnterRegion
    \/ ScrapeYellowPagesUS
    \/ ScrapeYellowPagesCA
    \/ ScrapeYelp
    \/ SkipYelp
    \/ AppendCategory
    \/ RegionRaises
    \/ SaveRegion
    \/ Finish

Spec == Init /\ [][Next]_vars

-----------------------------------------------------------------------------
(* Properties *)

InRegion == pc \in { "category", "afterYP", "return", "save" }

InCategory == pc \in { "afterYP", "return" }

IsShortfall(row) == row = ShortfallRow(row.category)

BlockOf(c) == SelectSeq(all_results, LAMBDA r : r.category = c)

RealRows(rows) == SelectSeq(rows, LAMBDA r : ~IsShortfall(r))

ShortfallRows(rows) == SelectSeq(rows, LAMBDA r : IsShortfall(r))

Key(row) == << lower(row.name), lower(row.email) >>

KeysOf(rows) == { Key(rows[i]) : i \in DOMAIN rows }

RECURSIVE CountSum(_, _)
CountSum(calls, n) == IF n = 0 THEN 0 ELSE calls[n].count + CountSum(calls, n - 1)

(* The rows accumulated once the first n provider calls have returned *)
Accumulated(n) == SubSeq(all_businesses, 1, CountSum(queried, n))

Sources == REGIONS[region_key].sources

QuotaRule(block, c) ==
    LET real == RealRows(block)
        marks == ShortfallRows(block)
    IN /\ Len(real) <= 10
       /\ Len(real) = 10 => marks = <<>>
       /\ Len(real) < 10 => /\ Len(marks) = 1
                            /\ block[Len(block)] = ShortfallRow(c)

(* C1: in a region result every finished category's block has at most 10
   real rows; with exactly 10 it has no shortfall row, with fewer it has
   exactly one shortfall row, of that category, as its last row. *)
C1_QuotaBound ==
    InRegion =>
        \A i \in DOMAIN CATEGORIES :
            i < catIdx => QuotaRule(BlockOf(CATEGORIES[i]), CATEGORIES[i])

(* C1 witness: a finished region whose first block is full and whose second
   block has some rows and the shortfall row *)
C1_Witness ==
    /\ pc = "save"
    /\ Len(RealRows(BlockOf(CATEGORIES[1]))) = 10
    /\ Len(BlockOf(CATEGORIES[1])) = 10
    /\ Len(RealRows(BlockOf(CATEGORIES[2]))) \in 1..9
    /\ Len(ShortfallRows(BlockOf(CATEGORIES[2]))) = 1

HasNameAndEmail(row) == row.name # <<>> /\ row.email # <<>>

(* C2: every row of a region result other than a shortfall row has a name
   and an email; so has every row a provider returned, and only those rows
   are counted against the quota. *)
C2_MandatoryFields ==
    /\ \A i \in DOMAIN all_results :
          ~IsShortfall(all_results[i]) => HasNameAndEmail(all_results[i])
    /\ \A i \in DOMAIN all_businesses : HasNameAndEmail(all_businesses[i])
    /\ \A i \in DOMAIN businesses : HasNameAndEmail(businesses[i])
    /\ InCategory => Len(all_businesses) = CountSum(queried, Len(queried))

(* C2 witness: both providers dropped listings for want of an email and
   both returned rows *)
C2_Witness ==
    /\ pc = "return"
    /\ Len(queried) = 2
    /\ \A i \in 1..2 : queried[i].no_email /\ queried[i].count > 0
    /\ Len(businesses) < 10

FirstProviderFull ==
    /\ queried[1].count >= 10
    /\ Cardinality(KeysOf(Accumulated(1))) = queried[1].count

(* C3: when YellowPages alone returns at least 10 rows with pairwise
   distinct case-insensitive (name, email), no second provider is queried
   for the category. *)
C3_EarlyExit ==
    /\ (pc = "afterYP" /\ FirstProviderFull) => ~ENABLED ScrapeYelp
    /\ (pc = "return" /\ FirstProviderFull) =>
          /\ Len(queried) = 1
          /\ queried[1].provider = Sources[1]

(* C3 witness: the category returns after YellowPages gave 10 distinct rows *)
C3_Witness == pc = "return" /\ FirstProviderFull /\ Len(businesses) = 10

(* C4: whenever fewer than 10 distinct case-insensitive (name, email) have
   been accumulated after the first provider's call, the second provider of
   the region's sources is queried; so also when the first provider returned
   10 rows some of which are duplicates. *)
C4_FallbackEscalation ==
    (pc = "return" /\ Cardinality(KeysOf(Accumulated(1))) < 10) =>
        /\ Len(queried) > 1
        /\ queried[2].provider = Sources[2]

(* C5: a shortfall row is added for a category only when every provider of
   the region's sources has been queried for it. *)
C5_ExhaustedAfterAllProviders ==
    (pc = "return" /\ ShortfallRows(CategoryBlock(businesses, category)) # <<>>)
        => \A n \in DOMAIN Sources :
              \E i \in DOMAIN queried : queried[i].provider = Sources[n]

(* The index of the first of the keys ks that is k, 0 when none is *)
FirstSeen(ks, k) ==
    IF \E i \in DOMAIN ks : ks[i] = k
    THEN CHOOSE i \in DOMAIN ks : ks[i] = k /\ \A j \in 1..(i - 1) : ks[j] # k
    ELSE 0

(* C6: the rows a category returns have pairwise different case-insensitive
   (name, email); each is, field for field, the first accumulated row with
   its key; the rows are in the order of those first occurrences; and no
   block of a region result holds two real rows with one key. *)
C6_Dedup ==
    /\ pc = "return" =>
          LET seen == [ i \in DOMAIN all_businesses |-> Key(all_businesses[i]) ]
              first == [ i \in DOMAIN businesses |->
                           FirstSeen(seen, Key(businesses[i])) ]
          IN /\ Cardinality(KeysOf(businesses)) = Len(businesses)
             /\ \A i \in DOMAIN businesses :
                   /\ first[i] # 0
                   /\ businesses[i] = all_businesses[first[i]]
             /\ \A i \in 1..(Len(businesses) - 1) : first[i] < first[i + 1]
             /\ Len(businesses) = Min(10, Cardinality(KeysOf(all_businesses)))
    /\ InRegion =>
          \A c \in CategorySet :
              LET real == RealRows(BlockOf(c)) IN
              Cardinality(KeysOf(real)) = Len(real)

(* C6 witness: YellowPages and Yelp returned the same business in
   different capitals and with different fields, and the YellowPages row
   is the one returned *)
C6_Witness ==
    /\ pc = "return"
    /\ Len(queried) = 2
    /\ \E i \in 1..queried[1].count :
          \E j \in (queried[1].count + 1)..Len(all_businesses) :
              /\ Key(all_businesses[i]) = Key(all_businesses[j])
              /\ all_businesses[i].name # all_businesses[j].name
              /\ all_businesses[i].phone # all_businesses[j].phone
              /\ \E k \in DOMAIN businesses : businesses[k] = all_businesses[i]

(* C7: a provider call that fails as a whole counts as no rows; after a
   failed YellowPages call Yelp is still queried; the rows of the other
   provider are kept; and the category's block obeys the quota rule. *)
C7_ProviderFailure ==
    /\ InCategory => \A i \in DOMAIN queried :
                        queried[i].failed => queried[i].count = 0
    /\ (pc = "afterYP" /\ queried[1].failed) =>
          all_businesses = <<>> /\ ENABLED ScrapeYelp
    /\ (pc = "return" /\ queried[1].failed) =>
          Len(queried) = 2 /\ queried[2].provider = Sources[2]
    /\ (pc = "return" /\ \E i \in DOMAIN queried : queried[i].failed) =>
          /\ \A i \in DOMAIN queried :
                ~queried[i].failed =>
                    \/ Len(businesses) = 10
                    \/ KeysOf(SubSeq(all_businesses,
                                     CountSum(queried, i - 1) + 1,
                                     CountSum(queried, i))) \subseteq KeysOf(businesses)
          /\ QuotaRule(CategoryBlock(businesses, category), category)

(* C7 witness: Yelp failed after YellowPages had returned rows, and those
   rows are returned *)
C7_Witness ==
    /\ pc = "return"
    /\ Len(queried) = 2
    /\ queried[2].failed
    /\ ~queried[1].failed
    /\ queried[1].count > 0
    /\ Len(businesses) = queried[1].count

CatIndex(c) == CHOOSE i \in DOMAIN CATEGORIES : CATEGORIES[i] = c

(* C8: the rows of a region result are grouped by category in the order of
   CATEGORIES, one unbroken block for each category finished so far. *)
C8_CategoryOrder ==
    InRegion =>
        /\ \A i, j \in DOMAIN all_results :
              i < j => CatIndex(all_results[i].category)
                          <= CatIndex(all_results[j].category)
        /\ { all_results[i].category : i \in DOMAIN all_results }
              = { CATEGORIES[i] : i \in 1..(catIdx - 1) }

(* C8 witness: a finished region whose first block is full and whose
   second block is the shortfall row alone *)
C8_Witness ==
    /\ pc = "save"
    /\ Len(BlockOf(CATEGORIES[1])) = 10
    /\ BlockOf(CATEGORIES[2]) = << ShortfallRow(CATEGORIES[2]) >>

AllRegions == { RegionKeys[i] : i \in DOMAIN RegionKeys }

(* C9: main attempts every region: the regions before the current one have
   all been attempted whatever their outcome, main can always take a step
   until it is done, and when it is done every region has been attempted. *)
C9_RegionsAttempted ==
    /\ pc = "main" => attempted = { RegionKeys[i] : i \in 1..(regionIdx - 1) }
    /\ pc # "done" => ENABLED Next
    /\ pc = "done" => attempted = AllRegions

(* C9 witness: the first region raised and the second was attempted *)
C9_Witness ==
    /\ pc = "done"
    /\ \E i \in DOMAIN log :
          log[i] = [ event |-> "error_processing_region", region |-> RegionKeys[1] ]
    /\ RegionKeys[2] \in attempted

(* C10 as claimed: a region whose export failed is not reported completed. *)
C10_ExportFailureSurfaced ==
    \A i \in DOMAIN log :
        log[i].event = "error_saving" =>
            \A j \in DOMAIN log :
                log[j] # [ event |-> "completed", region |-> log[i].region ]

(* C10 as amended: an export failure is logged by save_to_excel and goes no
   further: main reports that region completed right after it, no file is
   left for the region, and every region is still attempted. *)
C10_ExportFailureLogged ==
    /\ \A i \in DOMAIN log :
          log[i].event = "error_saving" =>
              /\ i < Len(log)
              /\ log[i + 1] = [ event |-> "completed", region |-> log[i].region ]
              /\ log[i].region \notin files
    /\ pc = "done" => attempted = AllRegions

(* C10 witness: the first region's export failed and the second region's
   file was written *)
C10_Witness ==
    /\ pc = "done"
    /\ \E i \in DOMAIN log :
          log[i] = [ event |-> "error_saving", region |-> RegionKeys[1] ]
    /\ RegionKeys[2] \in files

-----------------------------------------------------------------------------
(* The additional fetches among the places a listing was searched *)
Fetches(lookups) ==
    { i \in DOMAIN lookups : lookups[i] \in { "website", "page" } }

(* C11: in every provider call, each listing searched for an email has its
   own text searched first, the fetch of its website or profile page comes
   only after that search, and at most one such fetch is made per listing. *)
C11_ListingTextFirst ==
    \A i \in DOMAIN queried : \A lookups \in queried[i].lookups :
        /\ Head(lookups) = "listing"
        /\ Cardinality(Fetches(lookups)) <= 1

====
